---- MODULE Spec2Model ----
(***************************************************************************)
(* Model of junkbegone.py: the Gmail classification-and-labeling pipeline. *)
(* Strings are sequences of one-character strings, so that str.lower() and *)
(* str.strip() are computed, not assumed.  Label identifiers are tuples    *)
(* (<<"Label", n>> for user labels, <<"INBOX">> style for system labels),  *)
(* message identifiers are integers.  Spec is main() run any number of     *)
(* times on one mailbox; ClassifySpec and SelectSpec call the classifier   *)
(* adapter and the message selector on their own.                          *)
(***************************************************************************)
EXTENDS Integers, Sequences, FiniteSets, TLC

\* ------------------------------------------------------------------ bounds
NumMsgs == 2
MaxDate == 2
NumSortMsgs == 3

Msgs == 1..NumMsgs

\* ----------------------------------------------------------------- strings
UpperChars == <<"A","B","C","D","E","F","G","H","I","J","K","L","M",
                "N","O","P","Q","R","S","T","U","V","W","X","Y","Z">>
LowerChars == <<"a","b","c","d","e","f","g","h","i","j","k","l","m",
                "n","o","p","q","r","s","t","u","v","w","x","y","z">>
Whitespace == {" ", "\t", "\n", "\r"}

LowerOf ==
    [c \in {UpperChars[i] : i \in DOMAIN UpperChars} |->
        LowerChars[CHOOSE i \in DOMAIN UpperChars : UpperChars[i] = c]]

\* str.lower() on one character
LowerChar(c) == IF c \in DOMAIN LowerOf THEN LowerOf[c] ELSE c

\* str.lower()
Lower(s) == [i \in DOMAIN s |-> LowerChar(s[i])]

RECURSIVE LStrip(_)
LStrip(s) == IF s # <<>> /\ Head(s) \in Whitespace THEN LStrip(Tail(s)) ELSE s

RECURSIVE RStrip(_)
RStrip(s) ==
    IF s # <<>> /\ s[Len(s)] \in Whitespace
    THEN RStrip(SubSeq(s, 1, Len(s) - 1))
    ELSE s

\* str.strip()
Strip(s) == RStrip(LStrip(s))

\* ------------------------------------------------------- program constants
Interactions == <<"I","n","t","e","r","a","c","t","i","o","n","s">>
Advertisements == <<"A","d","v","e","r","t","i","s","e","m","e","n","t","s">>
Notices == <<"N","o","t","i","c","e","s">>
Documents == <<"D","o","c","u","m","e","n","t","s">>
Appointments == <<"A","p","p","o","i","n","t","m","e","n","t","s">>
EtCetera == <<"E","t"," ","C","e","t","e","r","a">>

TARGET_LABELS ==
    <<Interactions, Advertisements, Notices, Documents, Appointments, EtCetera>>

\* [lbl.lower() for lbl in TARGET_LABELS]
LoweredTargets == {Lower(TARGET_LABELS[i]) : i \in DOMAIN TARGET_LABELS}

\* provider identifiers of the SKIP_LABELS (Promotions, Social, Updates)
SKIP_LABELS ==
    {<<"CATEGORY_PROMOTIONS">>, <<"CATEGORY_SOCIAL">>, <<"CATEGORY_UPDATES">>}

\* ------------------------------------------------------ classifier adapter
\* What the classifier provider can hand back to lines 151-158:
\*   "error"     openai.chat.completions.create raises
\*   "notjson"   json.loads raises
\*   "nonobject" the text parses to a JSON value that is no object
\*   "object"    a JSON object; hasSummary/hasCategory say which keys it has,
\*               summaryIsStr/categoryIsStr whether the values are strings
RawCategories ==
    { Notices,
      <<" ","d","o","c","u","m","e","n","t","s","\n">>,
      <<"A","P","P","O","I","N","T","M","E","N","T","S">>,
      <<"e","t"," ","c","e","t","e","r","a">>,
      EtCetera,
      <<"S","p","a","m">>,
      <<"N","o","t","i","c","e">>,
      <<"E","t","C","e","t","e","r","a">>,
      <<"N","o","t","i"," ","c","e","s">>,
      <<" ">>,
      <<>> }

Response(kind, hs, hc, ss, cs, cat) ==
    [kind |-> kind, hasSummary |-> hs, hasCategory |-> hc,
     summaryIsStr |-> ss, categoryIsStr |-> cs, category |-> cat]

FailedResponses ==
    { Response(k, FALSE, FALSE, FALSE, FALSE, <<>>) :
        k \in {"error", "notjson", "nonobject"} }
    \cup { Response("object", hs, hc, TRUE, TRUE, Notices) :
            hs \in BOOLEAN, hc \in {FALSE} }
    \cup { Response("object", FALSE, TRUE, TRUE, TRUE, Notices),
           Response("object", TRUE, TRUE, TRUE, FALSE, <<>>) }

ObjectResponses(cats) ==
    { Response("object", TRUE, TRUE, ss, TRUE, c) : ss \in BOOLEAN, c \in cats }

NoResponse == Response("none", FALSE, FALSE, FALSE, FALSE, <<>>)

\* None, in the shape of a result
NoResult == [ok |-> FALSE, summaryIsStr |-> FALSE, category |-> <<>>]

\* the defaulting to "Et Cetera" left out
NormalizeCategory_NoDefault(raw) == Strip(raw)

\* lines 160-164: strip, then default to "Et Cetera" when out of taxonomy
NormalizeCategory(raw) ==
    LET category == Strip(raw)
    IN  IF Lower(category) \notin LoweredTargets THEN EtCetera ELSE category

\* lines 150-171, after the call
classify_email_with_chatgpt(resp) ==
    IF resp.kind # "object" THEN NoResult               \* except: return None
    ELSE IF ~(resp.hasSummary /\ resp.hasCategory) THEN NoResult
    ELSE IF ~resp.categoryIsStr THEN NoResult            \* .strip() raises
    ELSE [ok |-> TRUE, summaryIsStr |-> resp.summaryIsStr,
          category |-> NormalizeCategory(resp.category)]

\* ------------------------------------------------------------- collections
Range(s) == {s[i] : i \in DOMAIN s}

\* dict.get(key) with None modelled as the empty tuple
DictGet(d, key) == IF key \in DOMAIN d THEN d[key] ELSE <<>>

DictSet(d, key, val) ==
    [k \in (DOMAIN d) \cup {key} |-> IF k = key THEN val ELSE d[k]]

Min(a, b) == IF a <= b THEN a ELSE b
Max(a, b) == IF a >= b THEN a ELSE b

\* seq[:count] of Python, count an integer
PySlice(seq, count) ==
    IF count >= 0
    THEN SubSeq(seq, 1, Min(count, Len(seq)))
    ELSE SubSeq(seq, 1, Max(Len(seq) + count, 0))

\* -------------------------------------------------------------------- state
VARIABLES
    labels,          \* provider: the label list, records [id, name], in list order
    nextLabel,       \* provider: number of the next user label it creates
    labelIds,        \* provider: labelIds of each message
    internalDate,    \* provider: internalDate of each message
    logFile,         \* classification_log.csv: [exists, rows]
    pc,              \* where main() is
    count,           \* args.count: [isNone, n]
    label_mapping,   \* main: label_mapping
    labelIdx,        \* initialize_target_labels: index of the loop over TARGET_LABELS
    listing,         \* get_uncategorized_messages: the ids of results.get("messages", [])
    eligible,        \* the messages that matched the query when it was listed
    messages,        \* main: messages
    idx,             \* main: position of the for loop in messages[:count]
    message,         \* process_message: labelIds of the fetched message
    response,        \* classify_email_with_chatgpt: what the classifier answered
    result,          \* process_message: result
    label_id,        \* process_message: label_id
    failure,         \* the call whose exception ended the run, or "none"
    mutations,       \* history: successful label-add mutations of each message
    trace            \* history of the current run: <<event, msg_id>>, the events
                     \* "invoke" (process_message called), "fetch_failed",
                     \* "null", "unresolved", "already", "classified",
                     \* "modify_failed", "mutate", "log_failed", "log"

provider == <<labels, nextLabel, labelIds, internalDate>>
locals == <<count, label_mapping, labelIdx, listing, eligible, messages, idx,
            message, response, result, label_id>>
vars == <<labels, nextLabel, labelIds, internalDate, logFile, pc, count,
          label_mapping, labelIdx, listing, eligible, messages, idx, message,
          response, result, label_id, failure, mutations, trace>>

\* ----------------------------------------------------------------- provider
INBOX == <<"INBOX">>
UserLabel(n) == <<"Label", n>>
IsUserLabel(id) == Len(id) > 1

\* the query without its has:nouserlabels term
MatchesQuery_SkipLabelsOnly(m) == labelIds[m] \cap SKIP_LABELS = {}

\* the query of line 179: has:nouserlabels -label:Promotions -label:Social -label:Updates
MatchesQuery(m) ==
    /\ \A id \in labelIds[m] : ~IsUserLabel(id)
    /\ labelIds[m] \cap SKIP_LABELS = {}

\* what messages().list can answer with: the first page of the matching
\* messages, of a length and in an order of the provider's choosing (the rest
\* is behind nextPageToken)
FirstPages ==
    LET matching == {m \in DOMAIN labelIds : MatchesQuery(m)}
        lens == IF matching = {} THEN {0} ELSE 1..Cardinality(matching)
    IN  UNION { {p \in [1..k -> matching] : \A i, j \in 1..k : i # j => p[i] # p[j]}
                : k \in lens }

\* ------------------------------------------------------------ label registry
\* the names compared as written
get_existing_label_CaseSensitive(label_name) ==
    LET hits == {i \in DOMAIN labels : labels[i].name = label_name}
    IN  IF hits = {} THEN <<>>
        ELSE labels[CHOOSE i \in hits : \A j \in hits : i <= j].id

\* lines 49-54: the first label of the list whose lowered name matches, or None
get_existing_label(label_name) ==
    LET hits == {i \in DOMAIN labels : Lower(labels[i].name) = Lower(label_name)}
    IN  IF hits = {} THEN <<>>
        ELSE labels[CHOOSE i \in hits : \A j \in hits : i <= j].id

\* ----------------------------------------------------------------- selector
\* the sort without reverse=True: stable, ascending
RECURSIVE SortNewestFirst_Ascending(_)
SortNewestFirst_Ascending(s) ==
    IF s = <<>> THEN <<>>
    ELSE LET sorted == SortNewestFirst_Ascending(SubSeq(s, 1, Len(s) - 1))
             x == s[Len(s)]
             k == Cardinality({i \in DOMAIN sorted :
                                 internalDate[sorted[i]] <= internalDate[x]})
         IN  SubSeq(sorted, 1, k) \o <<x>> \o SubSeq(sorted, k + 1, Len(sorted))

\* list.sort(key=internalDate, reverse=True): stable, descending
RECURSIVE SortNewestFirst(_)
SortNewestFirst(s) ==
    IF s = <<>> THEN <<>>
    ELSE LET sorted == SortNewestFirst(SubSeq(s, 1, Len(s) - 1))
             x == s[Len(s)]
             k == Cardinality({i \in DOMAIN sorted :
                                 internalDate[sorted[i]] >= internalDate[x]})
         IN  SubSeq(sorted, 1, k) \o <<x>> \o SubSeq(sorted, k + 1, Len(sorted))

\* lines 257-258: messages[:count], count defaulting to len(messages)
Bounded ==
    PySlice(messages, IF count.isNone THEN Len(messages) ELSE count.n)

\* ---------------------------------------------------------------- audit log
Header == [kind |-> "header", id |-> 0, category |-> <<>>]
Row(mail_id, category) ==
    [kind |-> "row", id |-> mail_id, category |-> category]

\* the record put in front of the rows already there
append_log_Prepend(mail_id, category) ==
    [exists |-> TRUE,
     rows |-> <<Row(mail_id, category)>>
              \o (IF logFile.exists THEN <<>> ELSE <<Header>>) \o logFile.rows]

\* lines 87-99: the header when the file did not exist, then the row
append_log(mail_id, category) ==
    [exists |-> TRUE,
     rows |-> logFile.rows \o (IF logFile.exists THEN <<>> ELSE <<Header>>)
                           \o <<Row(mail_id, category)>>]

\* lines 88-93: where append_log can raise, and what is then in the file.
\* open() raises: nothing changes.  writerow() raises on line 93: the file was
\* created by open() and closing it writes the header of line 92.  The write
\* of the buffered text raises when the file is closed: the file was created
\* by open() and nothing was added to it.
LogFailures == {"open", "writerow", "close"}
append_log_failed(at) ==
    CASE at = "open" -> logFile
      [] at = "writerow" ->
           [exists |-> TRUE,
            rows |-> logFile.rows \o (IF logFile.exists THEN <<>> ELSE <<Header>>)]
      [] at = "close" -> [exists |-> TRUE, rows |-> logFile.rows]

\* --------------------------------------------------------------------- Init
WorkName == <<"W","o","r","k">>
InboxName == <<"I","N","B","O","X">>
NOTICESName == <<"N","O","T","I","C","E","S">>

InitialLabels ==
    << [id |-> INBOX, name |-> InboxName],
       [id |-> UserLabel(1), name |-> WorkName],
       [id |-> UserLabel(2), name |-> NOTICESName] >>

\* a message starts uncategorized, under a skipped system label, or under the
\* user's own label
InitialLabelIds ==
    { {INBOX}, {INBOX, <<"CATEGORY_PROMOTIONS">>}, {INBOX, UserLabel(1)} }

NoCount == [isNone |-> TRUE, n |-> 0]
\* --count absent, negative, zero, within and beyond the mailbox's size
CountArgs == {NoCount} \cup {[isNone |-> FALSE, n |-> c] : c \in (-1)..(NumMsgs + 1)}

InitLocals ==
    /\ count = NoCount
    /\ label_mapping = <<>>
    /\ labelIdx = 1
    /\ listing = {}
    /\ eligible = {}
    /\ messages = <<>>
    /\ idx = 1
    /\ message = {}
    /\ result = NoResult
    /\ label_id = <<>>
    /\ failure = "none"
    /\ trace = <<>>

InitMailbox(ids, kinds) ==
    /\ labels = InitialLabels
    /\ nextLabel = Len(InitialLabels)
    /\ labelIds \in [ids -> kinds]
    /\ logFile = [exists |-> FALSE, rows |-> <<>>]
    /\ mutations = [m \in ids |-> 0]

\* message identifiers are opaque: they are named in order of receipt, and
\* only the order of the dates matters to the sort, ties included
Init ==
    /\ InitMailbox(Msgs, InitialLabelIds)
    /\ internalDate \in {d \in [Msgs -> 1..NumMsgs] :
                            /\ d[1] = 1
                            /\ \A m \in Msgs \ {1} : d[m] - d[m - 1] \in {0, 1}}
    /\ InitLocals
    /\ response = NoResponse
    /\ pc = "idle"

\* ------------------------------------------------------------------ actions
Abort(why) ==
    /\ pc' = "aborted"
    /\ failure' = why

\* lines 237-247: main() is invoked (again): parse the arguments, authenticate
Main ==
    /\ pc \in {"idle", "done", "aborted"}
    /\ \E c \in CountArgs : count' = c
    /\ label_mapping' = <<>>
    /\ labelIdx' = 1
    /\ listing' = {}
    /\ eligible' = {}
    /\ messages' = <<>>
    /\ idx' = 1
    /\ message' = {}
    /\ response' = NoResponse
    /\ result' = NoResult
    /\ label_id' = <<>>
    /\ trace' = <<>>
    /\ \E authOk \in BOOLEAN :
         IF authOk THEN pc' = "registry" /\ failure' = "none" ELSE Abort("auth")
    /\ UNCHANGED <<provider, logFile, mutations>>

\* the key stored as the name is written
MappingKey_AsWritten(label) == label

\* line 78: the key of label_mapping is label.lower()
MappingKey(label) == Lower(label)

\* the failed call is ignored and the run goes on to the selection
RegistryFailed_Swallowed ==
    /\ failure' = "registry"
    /\ pc' = "select"
    /\ UNCHANGED <<labels, nextLabel, label_mapping, labelIdx>>

\* lines 47 and 62 under line 249: labels().list or labels().create raises;
\* nothing catches it
RegistryFailed ==
    /\ Abort("registry")
    /\ UNCHANGED <<labels, nextLabel, label_mapping, labelIdx>>

\* lines 74-79: one iteration of the loop over TARGET_LABELS
InitializeTargetLabels ==
    /\ pc = "registry"
    /\ LET label == TARGET_LABELS[labelIdx]
           existing == get_existing_label(label)
       IN  \E listOk, createOk \in BOOLEAN :
             /\ existing # <<>> => createOk
             /\ IF ~listOk \/ ~createOk
                THEN RegistryFailed
                ELSE /\ IF existing = <<>>
                        THEN /\ labels' = Append(labels,
                                    [id |-> UserLabel(nextLabel), name |-> label])
                             /\ nextLabel' = nextLabel + 1
                             /\ label_mapping' = DictSet(label_mapping, MappingKey(label),
                                                         UserLabel(nextLabel))
                        ELSE /\ UNCHANGED <<labels, nextLabel>>
                             /\ label_mapping' = DictSet(label_mapping, MappingKey(label),
                                                         existing)
                     /\ labelIdx' = labelIdx + 1
                     /\ pc' = IF labelIdx = Len(TARGET_LABELS) THEN "select"
                              ELSE "registry"
                     /\ UNCHANGED failure
    /\ UNCHANGED <<labelIds, internalDate, logFile, count, listing, eligible,
                   messages, idx, message, response, result, label_id, mutations,
                   trace>>

\* lines 180-189: the listed page, sorted newest first, is what is returned
SelectorReturns(page) ==
    /\ listing' = Range(page)
    /\ eligible' = {m \in DOMAIN labelIds : MatchesQuery(m)}
    /\ messages' = SortNewestFirst(page)

\* lines 250-256 with 173-189: list, fetch the dates, sort; stop when empty
GetUncategorizedMessages ==
    /\ pc = "select"
    /\ \E ok \in BOOLEAN :
         IF ~ok
         THEN /\ Abort("select")
              /\ UNCHANGED <<listing, eligible, messages>>
         ELSE \E page \in FirstPages :
              /\ SelectorReturns(page)
              /\ pc' = IF page = <<>> THEN "done" ELSE "loop"
              /\ UNCHANGED failure
    /\ UNCHANGED <<provider, logFile, count, label_mapping, labelIdx, idx,
                   message, response, result, label_id, mutations, trace>>

\* line 258: the loop is exhausted
LoopDone ==
    /\ pc = "loop"
    /\ idx > Len(Bounded)
    /\ pc' = "done"
    /\ UNCHANGED <<provider, logFile, locals, failure, mutations, trace>>

\* process_message returns: on to the next message
Advance ==
    /\ idx' = idx + 1
    /\ message' = {}
    /\ response' = NoResponse
    /\ result' = NoResult
    /\ label_id' = <<>>
    /\ pc' = "loop"
    /\ UNCHANGED failure

\* lines 258-259 and 196: process_message is called and fetches the message
ProcessFetch ==
    /\ pc = "loop"
    /\ idx <= Len(Bounded)
    /\ \E ok \in BOOLEAN :
         IF ok
         THEN /\ trace' = Append(trace, <<"invoke", Bounded[idx]>>)
              /\ message' = labelIds[Bounded[idx]]
              /\ pc' = "classify"
              /\ UNCHANGED failure
         ELSE /\ trace' = trace \o << <<"invoke", Bounded[idx]>>,
                                      <<"fetch_failed", Bounded[idx]>> >>
              /\ Abort("fetch")
              /\ UNCHANGED message
    /\ UNCHANGED <<provider, logFile, count, label_mapping, labelIdx, listing,
                   eligible, messages, idx, response, result, label_id, mutations>>

\* the answers the pipeline is run against: every failure, one in-taxonomy
\* category in another case and inside whitespace, one category out of the taxonomy
PipelineCategories ==
    { <<" ","n","o","t","i","c","e","s","\n">>,
      <<"S","p","a","m">> }
\* the null result treated as an error that ends the run
NullResult_Raises(msg_id) ==
    /\ trace' = Append(trace, <<"null", msg_id>>)
    /\ Abort("classify")
    /\ UNCHANGED <<idx, message, response, result, label_id>>

\* lines 210-212: result is None: report and return
NullResult(msg_id) ==
    /\ trace' = Append(trace, <<"null", msg_id>>)
    /\ Advance

Responses == FailedResponses \cup ObjectResponses(PipelineCategories)

\* lines 209-227: classify, resolve the label, skip when it is already there
\* the category looked up as written
ResolveLabel_AsWritten(category) == DictGet(label_mapping, category)

\* line 218: label_mapping.get(category.lower())
ResolveLabel(category) == DictGet(label_mapping, Lower(category))

ProcessClassify ==
    /\ pc = "classify"
    /\ \E resp \in Responses :
         LET msg_id == Bounded[idx]
             res == classify_email_with_chatgpt(resp)
             category == Strip(res.category)
             lid == ResolveLabel(category)
         IN  IF res = NoResult
             THEN NullResult(msg_id)
             ELSE IF ~res.summaryIsStr
             THEN /\ trace' = Append(trace, <<"classified", msg_id>>)
                  /\ Abort("summary")
                  /\ response' = resp
                  /\ result' = res
                  /\ UNCHANGED <<idx, message, label_id>>
             ELSE IF lid = <<>>
             THEN /\ trace' = Append(trace, <<"unresolved", msg_id>>)
                  /\ Advance
             ELSE IF lid \in message
             THEN /\ trace' = Append(trace, <<"already", msg_id>>)
                  /\ Advance
             ELSE /\ trace' = Append(trace, <<"classified", msg_id>>)
                  /\ response' = resp
                  /\ result' = res
                  /\ label_id' = lid
                  /\ pc' = "modify"
                  /\ UNCHANGED <<idx, message, failure>>
    /\ UNCHANGED <<provider, logFile, count, label_mapping, labelIdx, listing,
                   eligible, messages, mutations>>

\* the failed mutation swallowed: process_message goes on to log
ModifyFailed_Swallowed ==
    /\ trace' = Append(trace, <<"modify_failed", Bounded[idx]>>)
    /\ pc' = "log"
    /\ UNCHANGED <<labelIds, mutations, failure>>

\* line 231: modify(...).execute() raises; nothing catches it
ModifyFailed ==
    /\ trace' = Append(trace, <<"modify_failed", Bounded[idx]>>)
    /\ Abort("modify")
    /\ UNCHANGED <<labelIds, mutations>>

\* the request replaces the label set by the one label
AddLabelIds_Replace(current, add) == {add}

\* line 230: body {"addLabelIds": [label_id]}, nothing removed
AddLabelIds(current, add) == current \cup {add}

\* lines 230-232: the label-add mutation
ProcessModify ==
    /\ pc = "modify"
    /\ \E ok \in BOOLEAN :
         IF ok
         THEN /\ labelIds' = [labelIds EXCEPT ![Bounded[idx]] =
                                               AddLabelIds(@, label_id)]
              /\ mutations' = [mutations EXCEPT ![Bounded[idx]] = @ + 1]
              /\ trace' = Append(trace, <<"mutate", Bounded[idx]>>)
              /\ pc' = "log"
              /\ UNCHANGED failure
         ELSE ModifyFailed
    /\ UNCHANGED <<labels, nextLabel, internalDate, logFile, locals>>

\* line 235: append_log, then process_message returns
ProcessLog ==
    /\ pc = "log"
    /\ \E ok \in BOOLEAN :
         IF ok
         THEN /\ logFile' = append_log(Bounded[idx], Strip(result.category))
              /\ trace' = Append(trace, <<"log", Bounded[idx]>>)
              /\ Advance
         ELSE /\ \E at \in LogFailures : logFile' = append_log_failed(at)
              /\ trace' = Append(trace, <<"log_failed", Bounded[idx]>>)
              /\ Abort("log")
              /\ UNCHANGED <<idx, message, response, result, label_id>>
    /\ UNCHANGED <<provider, count, label_mapping, labelIdx, listing, eligible,
                   messages, mutations>>

Next ==
    \/ Main
    \/ InitializeTargetLabels
    \/ GetUncategorizedMessages
    \/ ProcessFetch
    \/ ProcessClassify
    \/ ProcessModify
    \/ ProcessLog
    \/ LoopDone

Spec == Init /\ [][Next]_vars

\* ------------------------------------- the adapter and the selector on their own
UpperOf ==
    [c \in {LowerChars[i] : i \in DOMAIN LowerChars} |->
        UpperChars[CHOOSE i \in DOMAIN LowerChars : LowerChars[i] = c]]
Upper(s) == [i \in DOMAIN s |-> IF s[i] \in DOMAIN UpperOf THEN UpperOf[s[i]] ELSE s[i]]

\* category strings the classifier may answer with: the six names and strings
\* near them, each as written, lowered, uppered and inside whitespace
BaseCategories ==
    Range(TARGET_LABELS) \cup (RawCategories \ {Notices, EtCetera})
UnitCategories ==
    UNION { {c, Lower(c), Upper(c), <<" ">> \o c, c \o <<"\n">>,
             <<"\t", " ">> \o Lower(c) \o <<" ", "\r">>} : c \in BaseCategories }
UnitResponses == FailedResponses \cup ObjectResponses(UnitCategories)

UnitInit(ids, kinds) ==
    /\ InitMailbox(ids, kinds)
    /\ InitLocals

\* classify_email_with_chatgpt called with one answer of the classifier
ClassifyInit ==
    /\ UnitInit(Msgs, {{INBOX}})
    /\ internalDate = [m \in Msgs |-> 1]
    /\ response \in UnitResponses
    /\ pc = "unit_classify"

ClassifyCall ==
    /\ pc = "unit_classify"
    /\ result' = classify_email_with_chatgpt(response)
    /\ pc' = "unit_done"
    /\ UNCHANGED <<provider, logFile, count, label_mapping, labelIdx, listing,
                   eligible, messages, idx, message, response, label_id, failure,
                   mutations, trace>>

ClassifySpec == ClassifyInit /\ [][ClassifyCall]_vars

\* get_uncategorized_messages called on a mailbox of NumSortMsgs messages
\* with any dates (0: the message has no internalDate)
SelectInit ==
    /\ UnitInit(1..NumSortMsgs, {{INBOX}, {INBOX, UserLabel(1)}})
    /\ internalDate \in [1..NumSortMsgs -> 0..MaxDate]
    /\ response = NoResponse
    /\ pc = "unit_select"

SelectCall ==
    /\ pc = "unit_select"
    /\ \E page \in FirstPages : SelectorReturns(page)
    /\ pc' = "unit_done"
    /\ UNCHANGED <<provider, logFile, count, label_mapping, labelIdx, idx, message,
                   response, result, label_id, failure, mutations, trace>>

SelectSpec == SelectInit /\ [][SelectCall]_vars

\* main() run any number of times on an empty mailbox whose label list
\* already holds any of the six labels, as written or in capitals
RECURSIVE ExistingLabels(_, _)
ExistingLabels(i, how) ==
    IF i = 0 THEN <<>>
    ELSE LET before == ExistingLabels(i - 1, how)
             id == UserLabel(Len(before) + 2)
         IN  CASE how[i] = "absent" -> before
               [] how[i] = "written" ->
                    Append(before, [id |-> id, name |-> TARGET_LABELS[i]])
               [] how[i] = "capitals" ->
                    Append(before, [id |-> id, name |-> Upper(TARGET_LABELS[i])])

RegistryInit ==
    /\ \E how \in [DOMAIN TARGET_LABELS -> {"absent", "written", "capitals"}] :
         /\ labels = << [id |-> INBOX, name |-> InboxName],
                        [id |-> UserLabel(1), name |-> WorkName] >>
                     \o ExistingLabels(Len(TARGET_LABELS), how)
         /\ nextLabel = Len(labels)
    /\ labelIds = <<>>
    /\ internalDate = <<>>
    /\ mutations = <<>>
    /\ logFile = [exists |-> FALSE, rows |-> <<>>]
    /\ InitLocals
    /\ response = NoResponse
    /\ pc = "idle"

RegistryNext ==
    \/ Main
    \/ InitializeTargetLabels
    \/ GetUncategorizedMessages

RegistrySpec == RegistryInit /\ [][RegistryNext]_vars

\* ------------------------------------------------------------------- claims
Happened(event, m) == <<event, m>> \in Range(trace)
RowsOf(m) == {i \in DOMAIN logFile.rows :
                logFile.rows[i].kind = "row" /\ logFile.rows[i].id = m}
RunEnded == pc \in {"done", "aborted"}

\* C1: over any number of successive runs of main on a mailbox nothing else
\* changes, every message gets at most one label-add mutation and at most one
\* log row in total, and a message labeled in an earlier run is not selected,
\* mutated or logged in a later one.
C1_IdempotentAcrossRuns ==
    \A m \in Msgs :
        /\ mutations[m] <= 1
        /\ Cardinality(RowsOf(m)) <= 1
        /\ (mutations[m] = 1 /\ ~Happened("mutate", m)) =>
              /\ m \notin Range(messages)
              /\ ~Happened("invoke", m)
              /\ ~Happened("log", m)

\* a later run has completed after labeling one message while another message
\* carries the label of an earlier run
C1_Witness ==
    /\ pc = "done"
    /\ \E m1, m2 \in Msgs :
         /\ mutations[m1] = 1 /\ ~Happened("mutate", m1)
         /\ Happened("log", m2)

\* --------------------------------------------------------------------------
Invoked ==
    LET calls == SelectSeq(trace, LAMBDA e : e[1] = "invoke")
    IN  [i \in DOMAIN calls |-> calls[i][2]]
Touched(m) == \E e \in Range(trace) : e[2] = m
Unlabeled(m) == \A id \in labelIds[m] : ~IsUserLabel(id)
PositionOf(m) == CHOOSE i \in DOMAIN Bounded : Bounded[i] = m

\* C2: with --count N, N >= 1, over a selection of M >= N messages, a run
\* calls process_message for exactly the N first messages of the selection,
\* none of them older than a message left out, and leaves the other M - N
\* unfetched, unclassified, unlabeled and unlogged.
C2_CountBound ==
    (/\ RunEnded
     /\ failure \notin {"auth", "registry", "select"}
     /\ ~count.isNone /\ count.n >= 1 /\ Len(messages) >= count.n) =>
        /\ Invoked = SubSeq(messages, 1, count.n)
        /\ \A j \in (count.n + 1)..Len(messages) :
              /\ ~Touched(messages[j])
              /\ Unlabeled(messages[j])
              /\ RowsOf(messages[j]) = {}
              /\ \A i \in 1..count.n :
                    internalDate[messages[i]] >= internalDate[messages[j]]

\* C3: when the label-add mutation of a message fails, every later message of
\* the bounded selection is still processed in the same run.
C3_ModifyFailureContained ==
    RunEnded =>
        \A i \in DOMAIN Bounded :
            Happened("modify_failed", Bounded[i]) =>
                \A j \in (i + 1)..Len(Bounded) : Happened("invoke", Bounded[j])

\* C4: every failed classifier answer makes classify_email_with_chatgpt return
\* None; a message whose result is None gets no label and no log row, and the
\* very next thing the run does is process the next message of the bounded
\* selection (or finish, after the last one).
C4_NullResultSkipsMessage ==
    /\ \A resp \in FailedResponses : classify_email_with_chatgpt(resp) = NoResult
    /\ \A k \in DOMAIN trace :
         trace[k][1] = "null" =>
            LET m == trace[k][2]
                i == PositionOf(m)
            IN  /\ ~Happened("mutate", m) /\ ~Happened("log", m)
                /\ Unlabeled(m) /\ RowsOf(m) = {}
                /\ IF k < Len(trace)
                   THEN i < Len(Bounded) /\ trace[k + 1] = <<"invoke", Bounded[i + 1]>>
                   ELSE \/ pc = "loop" /\ idx = i + 1
                        \/ pc = "done" /\ i = Len(Bounded)

\* a run skipped its first message on a None result and has labeled and
\* logged its second
C4_Witness ==
    /\ Len(trace) >= 2
    /\ trace[2][1] = "null"
    /\ \E m \in Msgs : m # trace[2][2] /\ Happened("log", m)

\* C5: when fetching the full content of a message fails, every later message
\* of the bounded selection is still processed in the same run.
C5_FetchFailureContained ==
    RunEnded =>
        \A i \in DOMAIN Bounded :
            Happened("fetch_failed", Bounded[i]) =>
                \A j \in (i + 1)..Len(Bounded) : Happened("invoke", Bounded[j])

\* C6: every row of the log names a message that carries the label of the
\* row's category; within a run a row is written only after the mutation of
\* that message succeeded, and a message whose result was None, whose category
\* was unresolvable, which already carried the label or whose mutation failed
\* gets no row.
C6_RowOnlyAfterLabel ==
    /\ \A r \in Range(logFile.rows) :
         r.kind = "row" =>
            \E i \in DOMAIN labels :
               /\ Lower(labels[i].name) = Lower(r.category)
               /\ labels[i].id \in labelIds[r.id]
    /\ \A k \in DOMAIN trace :
         trace[k][1] = "log" =>
            \E j \in 1..(k - 1) : trace[j] = <<"mutate", trace[k][2]>>
    /\ \A m \in Msgs :
         /\ (Happened("null", m) \/ Happened("unresolved", m)
               \/ Happened("modify_failed", m))
              => ~Happened("log", m) /\ RowsOf(m) = {}
         /\ Happened("already", m) => ~Happened("log", m)

\* a run has logged one message and the mutation of another has failed
C6_Witness ==
    \E m1, m2 \in Msgs :
        /\ Happened("log", m1) /\ RowsOf(m1) # {}
        /\ Happened("modify_failed", m2)

\* C7: when a run has ended, each message has as many log rows as it has had
\* successful label-add mutations.
C7_OneRowPerLabeling ==
    RunEnded => \A m \in Msgs : Cardinality(RowsOf(m)) = mutations[m]

\* C10: a run without --count that completes has processed every message that
\* matched the query when the selection was made.
C10_AllEligibleProcessed ==
    (pc = "done" /\ count.isNone) =>
        \A m \in eligible : Happened("invoke", m)

\* --------------------------------------------------------------------------
\* trimming, and matching a name whatever the case of its letters, defined
\* without str.strip() and str.lower()
SameLetter(a, b) ==
    \/ a = b
    \/ \E i \in DOMAIN UpperChars : {a, b} = {UpperChars[i], LowerChars[i]}
MatchesName(s, name) ==
    /\ Len(s) = Len(name)
    /\ \A i \in DOMAIN s : SameLetter(s[i], name[i])
InTaxonomy(s) == \E i \in DOMAIN TARGET_LABELS : MatchesName(s, TARGET_LABELS[i])
Trimmed(s) ==
    LET solid == {i \in DOMAIN s : s[i] \notin Whitespace}
    IN  IF solid = {} THEN <<>>
        ELSE SubSeq(s, CHOOSE i \in solid : \A j \in solid : i <= j,
                       CHOOSE i \in solid : \A j \in solid : i >= j)

\* C8: for every classifier answer that parses and has both fields, the
\* result is not None and, when the trimmed category matches none of the six
\* names whatever the case, its category is "Et Cetera"; every result that is
\* not None has a category matching one of the six names.
C8_NormalizedCategory ==
    pc = "unit_done" =>
        /\ (/\ response.kind = "object"
            /\ response.hasSummary /\ response.hasCategory
            /\ response.categoryIsStr) =>
               /\ result # NoResult
               /\ ~InTaxonomy(Trimmed(response.category)) => result.category = EtCetera
        /\ result # NoResult => InTaxonomy(result.category)

\* the adapter has replaced a category that is not empty and not in the
\* taxonomy by "Et Cetera"
C8_Witness ==
    /\ pc = "unit_done"
    /\ result # NoResult
    /\ Trimmed(response.category) # <<>>
    /\ ~InTaxonomy(Trimmed(response.category))
    /\ result.category = EtCetera

\* C9: the sequence get_uncategorized_messages returns holds exactly the
\* listed identifiers, each once, and no entry is older than the one before.
C9_SortedPermutation ==
    pc = "unit_done" =>
        /\ Range(messages) = listing
        /\ Len(messages) = Cardinality(listing)
        /\ \A i \in 1..(Len(messages) - 1) :
              internalDate[messages[i]] >= internalDate[messages[i + 1]]

\* the selector has returned three messages of which it had to move the
\* newest, by identifier the last, to the front past two of equal date
C9_Witness ==
    /\ pc = "unit_done"
    /\ Len(messages) = 3
    /\ messages[1] > messages[2]
    /\ internalDate[messages[1]] > internalDate[messages[2]]
    /\ internalDate[messages[2]] = internalDate[messages[3]]

\* --------------------------------------------------------------------------
RegistryReturned ==
    \/ pc \in {"select", "loop", "classify", "modify", "log", "done"}
    \/ pc = "aborted" /\ failure \notin {"auth", "registry"}
LabelsNamed(name) == {i \in DOMAIN labels : MatchesName(labels[i].name, name)}

\* C11: once initialize_target_labels has returned, label_mapping has the six
\* lowered category names as its keys, no other key, and each key maps to the
\* identifier of a provider label whose name matches the category whatever
\* the case.
C11_RegistryComplete ==
    RegistryReturned =>
        /\ DOMAIN label_mapping = {Lower(TARGET_LABELS[i]) : i \in DOMAIN TARGET_LABELS}
        /\ Cardinality(DOMAIN label_mapping) = Len(TARGET_LABELS)
        /\ \A i \in DOMAIN TARGET_LABELS :
              \E j \in LabelsNamed(TARGET_LABELS[i]) :
                 labels[j].id = label_mapping[Lower(TARGET_LABELS[i])]

\* the registry has returned after finding one label in capitals and
\* creating another
C11_Witness ==
    /\ pc = "select"
    /\ \E i, j \in DOMAIN labels :
         /\ labels[i].name = Upper(Notices)
         /\ labels[i].id = label_mapping[Lower(Notices)]
         /\ labels[j].name = Documents
         /\ labels[j].id = UserLabel(nextLabel - 1)

\* --------------------------------------------------------------------------
SetupFailed == failure \in {"registry", "select"}

\* C12: when the label registry or the message selector fails, the run is
\* aborted, no message was fetched in full, classified or mutated in it and
\* no row was appended in it: the run has no event, and no step of a run
\* that has no event yet changes a label set or the log.
C12_SetupFailureAborts ==
    /\ [](SetupFailed => pc = "aborted" /\ trace = <<>>)
    /\ [][trace' = <<>> =>
            labelIds' = labelIds /\ mutations' = mutations /\ logFile' = logFile]_vars

\* the selector failed in a run that follows one which labeled and logged,
\* while a message is still eligible
C12_Witness ==
    /\ pc = "aborted"
    /\ failure = "select"
    /\ logFile.rows # <<>>
    /\ \E m \in Msgs : MatchesQuery(m)

\* --------------------------------------------------------------------------
RegistryLabelIds ==
    {labels[j].id : j \in UNION {LabelsNamed(TARGET_LABELS[i]) : i \in DOMAIN TARGET_LABELS}}

\* C13: in every step each message keeps the labels it had; a label set
\* changes only in the label-add step of the message being processed, which
\* adds exactly one label, one the registry maps a category to, and leaves
\* every other message as it was; a run mutates a message at most once.
C13_LabelsOnlyGrow ==
    /\ [][\A m \in Msgs :
            /\ labelIds[m] \subseteq labelIds'[m]
            /\ labelIds'[m] # labelIds[m] =>
                 /\ pc = "modify"
                 /\ m = Bounded[idx]
                 /\ \E l \in Range(label_mapping) \cap RegistryLabelIds :
                      /\ l \notin labelIds[m]
                      /\ labelIds'[m] = labelIds[m] \cup {l}
                 /\ \A o \in Msgs \ {m} : labelIds'[o] = labelIds[o]]_vars
    /\ [](\A m \in Msgs :
            Cardinality({i \in DOMAIN trace : trace[i] = <<"mutate", m>>}) <= 1)

\* both messages were labeled, each with one label next to the INBOX label
C13_Witness ==
    \A m \in Msgs :
        /\ mutations[m] = 1
        /\ INBOX \in labelIds[m]
        /\ Cardinality(labelIds[m]) = 2

\* --------------------------------------------------------------------------
Headers == {i \in DOMAIN logFile.rows : logFile.rows[i].kind = "header"}

\* C14: starting from a log that does not exist, after any calls of append_log
\* the log has exactly one header row, which is its first row, and every
\* append that returns adds exactly one record at the end and leaves the
\* earlier rows as they were.
C14_OneHeaderFirst ==
    /\ [](logFile.rows # <<>> => Headers = {1})
    /\ [][\A m \in Msgs :
            trace' = Append(trace, <<"log", m>>) =>
               /\ Len(logFile'.rows) >= Len(logFile.rows) + 1
               /\ logFile'.rows[Len(logFile'.rows)].kind = "row"
               /\ logFile'.rows[Len(logFile'.rows)].id = m
               /\ SubSeq(logFile'.rows, 1, Len(logFile.rows)) = logFile.rows
               /\ \A i \in (Len(logFile.rows) + 1)..(Len(logFile'.rows) - 1) :
                     logFile'.rows[i].kind = "header"]_vars

\* --------------------------------------------------------------------------
AllCategoriesLabeled == \A i \in DOMAIN TARGET_LABELS : LabelsNamed(TARGET_LABELS[i]) # {}

\* C17: the registry creates a label only for the category at hand and only
\* when no provider label matches its name whatever the case; the provider
\* never holds two labels for one category, so a run creates at most one
\* label per category; once every category has its label (a run of the
\* registry succeeded) no later run creates a label.
C17_CreateOnlyWhenMissing ==
    /\ [][labels' # labels =>
            /\ pc = "registry"
            /\ LabelsNamed(TARGET_LABELS[labelIdx]) = {}
            /\ \E id \in {UserLabel(n) : n \in 1..(Len(labels) + 1)} :
                 /\ \A j \in DOMAIN labels : labels[j].id # id
                 /\ labels' = Append(labels, [id |-> id, name |-> TARGET_LABELS[labelIdx]])]_vars
    /\ [](\A i \in DOMAIN TARGET_LABELS : Cardinality(LabelsNamed(TARGET_LABELS[i])) <= 1)
    /\ [][labels' # labels => ~AllCategoriesLabeled]_vars

\* a later run of the registry is under way on a label list that earlier
\* runs completed around a label found in capitals
C17_Witness ==
    /\ pc = "registry"
    /\ labelIdx = 4
    /\ Len(labels) = 8
    /\ labels[3].name = Upper(EtCetera)
    /\ AllCategoriesLabeled

\* --------------------------------------------------------------------------
Logged ==
    LET events == SelectSeq(trace, LAMBDA e : e[1] = "log")
    IN  [i \in DOMAIN events |-> events[i][2]]

\* C18: the events of a run follow the order of the selection, so whatever
\* happens to message i, its mutation and its row included, comes before
\* the fetch, the classification, the mutation and the row of message i + 1;
\* the rows a run has appended are the last rows of the log, in the order of
\* their messages in the newest-first selection; the log only grows at its
\* end, so the rows of an earlier run come before those of a later run.
C18_SequentialOrder ==
    /\ [](\A a, b \in DOMAIN trace :
            a < b => PositionOf(trace[a][2]) <= PositionOf(trace[b][2]))
    /\ [](LET k == Len(Logged)
              n == Len(logFile.rows)
          IN  /\ k <= n
              /\ \A i \in 1..k :
                    /\ logFile.rows[n - k + i].kind = "row"
                    /\ logFile.rows[n - k + i].id = Logged[i]
              /\ \A i, j \in 1..k :
                    i < j => /\ PositionOf(Logged[i]) < PositionOf(Logged[j])
                             /\ internalDate[Logged[i]] >= internalDate[Logged[j]])
    /\ [][/\ Len(logFile.rows) <= Len(logFile'.rows)
          /\ SubSeq(logFile'.rows, 1, Len(logFile.rows)) = logFile.rows]_vars

\* one run labeled and logged two messages received at different times
C18_Witness ==
    /\ Len(Logged) = 2
    /\ internalDate[Logged[1]] > internalDate[Logged[2]]
    /\ Len(logFile.rows) = 3

\* --------------------------------------------------------------------------
\* C19: when the registry has succeeded, whatever the classifier answers,
\* a result that is not null carries a category whose lookup in
\* label_mapping, as process_message does it, finds a label: the
\* 'unresolvable category' skip cannot be taken.
C19_CategoryAlwaysResolves ==
    pc = "select" =>
        \A resp \in UnitResponses :
            LET res == classify_email_with_chatgpt(resp)
            IN  res # NoResult => ResolveLabel(Strip(res.category)) # <<>>

\* the registry has succeeded on a label list that held the 'Et Cetera'
\* label in capitals, the label an answer out of the taxonomy resolves to
C19_Witness ==
    /\ pc = "select"
    /\ \E j \in DOMAIN labels :
         /\ labels[j].name = Upper(EtCetera)
         /\ \E resp \in ObjectResponses({<<"S", "p", "a", "m">>}) :
               /\ classify_email_with_chatgpt(resp) # NoResult
               /\ ResolveLabel(Strip(classify_email_with_chatgpt(resp).category))
                     = labels[j].id

\* --------------------------------------------------------------------------
\* what the claim says a run processes of a selection of M messages
Expected ==
    LET M == Len(messages)
    IN  IF count.n >= 0 THEN SubSeq(messages, 1, Min(count.n, M))
        ELSE SubSeq(messages, 1, Max(M + count.n, 0))

\* C20: a limit outside the positive range is accepted: a run with a limit
\* above the number M of selected messages processes all M, a run with the
\* limit 0 selects and processes none, a run with the limit -k processes
\* the max(M - k, 0) newest messages and leaves the k oldest untouched.
C20_LimitOutOfRange ==
    (/\ RunEnded
     /\ failure \notin {"auth", "registry", "select"}
     /\ ~count.isNone
     /\ count.n > Len(messages) \/ count.n <= 0) =>
        /\ Invoked = Expected
        /\ \A j \in (Len(Expected) + 1)..Len(messages) : ~Touched(messages[j])

\* the same for the runs that reach the end of main()
C20_CompletedRuns ==
    (pc = "done" /\ ~count.isNone) =>
        /\ Invoked = Expected
        /\ \A j \in (Len(Expected) + 1)..Len(messages) : ~Touched(messages[j])

====
